---- MODULE Spec2Model ----
(***************************************************************************)
(* KnowledgeBase.search of src/knowledge_base.py and its earlier variant   *)
(* in src/ragstuff/knowledge_base.py: the post-processing of the           *)
(* (document, score) pairs that the vector store's                         *)
(* similarity_search_with_score returns.                                   *)
(*                                                                         *)
(* Strings are TLA+ strings, handled character by character.               *)
(* Scores and similarities are fixed-point numbers: the float x is the     *)
(* integer x * One.                                                        *)
(***************************************************************************)
EXTENDS Integers, Sequences, FiniteSets, TLC

VARIABLES pc, caller, impl, query, k, upstream, hashSeed, outcome, ret, prev,
          uploaded, pos, store, added, shown

\* the state of the calls of search
svars == <<pc, caller, impl, query, k, upstream, hashSeed, outcome, ret, prev>>

\* the state of the upload section of the page: the files of the uploader, the
\* place of the loop in them (0 when no run is under way), the files with
\* chunks in the vector store, those stored during this run of the page, and
\* the messages this run has shown
uvars == <<uploaded, pos, store, added, shown>>

vars == <<svars, uvars>>

(***************************************************************************)
(* Fixed point and the constants of the code                               *)
(***************************************************************************)
\* the literal 1 of "(1 - score) * 100"
One == 10000
\* "if similarity > 35"
Threshold == 35
\* "if similarity > 30" of the ragstuff variant
RagThreshold == 30
\* "similarity += 15" and "similarity += 10"
UxBoost == 15
ActionBoost == 10
\* "len(result['content'].split()) > 10"
MinWords == 10
\* "k=k*4" and, in the ragstuff variant, "k=k*2"
OverFetch == 4
RagOverFetch == 2

(***************************************************************************)
(* Python's str methods                                                    *)
(***************************************************************************)
Uppers == "ABCDEFGHIJKLMNOPQRSTUVWXYZ"
Lowers == "abcdefghijklmnopqrstuvwxyz"
Whitespace == {" ", "\t", "\n"}

CharAt(s, i) == SubSeq(s, i, i)

\* one character of str.lower()
LowerChar(c) ==
  IF \E i \in 1..Len(Uppers) : CharAt(Uppers, i) = c
  THEN CharAt(Lowers, CHOOSE i \in 1..Len(Uppers) : CharAt(Uppers, i) = c)
  ELSE c

RECURSIVE Lower(_)
\* str.lower()
Lower(s) ==
  IF Len(s) = 0 THEN ""
  ELSE LowerChar(CharAt(s, 1)) \o Lower(SubSeq(s, 2, Len(s)))

\* s[i:i+len(t)] == t
MatchAt(t, s, i) ==
  /\ i + Len(t) - 1 <= Len(s)
  /\ SubSeq(s, i, i + Len(t) - 1) = t

\* "t in s" of two strings
Contains(t, s) == \E i \in 1..(Len(s) + 1) : MatchAt(t, s, i)

\* s.startswith(t)
StartsWith(s, t) == MatchAt(t, s, 1)

RECURSIVE LStrip(_)
LStrip(s) ==
  IF Len(s) > 0 /\ CharAt(s, 1) \in Whitespace
  THEN LStrip(SubSeq(s, 2, Len(s)))
  ELSE s

RECURSIVE RStrip(_)
RStrip(s) ==
  IF Len(s) > 0 /\ CharAt(s, Len(s)) \in Whitespace
  THEN RStrip(SubSeq(s, 1, Len(s) - 1))
  ELSE s

\* str.strip()
Strip(s) == RStrip(LStrip(s))

RECURSIVE Split(_, _)
\* str.split(sep) with a non-empty separator
Split(s, sep) ==
  IF \E i \in 1..Len(s) : MatchAt(sep, s, i)
  THEN LET i == CHOOSE j \in 1..Len(s) :
                  /\ MatchAt(sep, s, j)
                  /\ \A h \in 1..(j - 1) : ~MatchAt(sep, s, h)
       IN  <<SubSeq(s, 1, i - 1)>> \o Split(SubSeq(s, i + Len(sep), Len(s)), sep)
  ELSE <<s>>

RECURSIVE Join(_, _)
\* sep.join(parts)
Join(sep, parts) ==
  IF Len(parts) = 0 THEN ""
  ELSE IF Len(parts) = 1 THEN parts[1]
  ELSE parts[1] \o sep \o Join(sep, Tail(parts))

\* len(s.split()): the number of maximal runs of non-whitespace characters
WordCount(s) ==
  Cardinality({i \in 1..Len(s) :
                 /\ CharAt(s, i) \notin Whitespace
                 /\ (i = 1 \/ CharAt(s, i - 1) \in Whitespace)})

RECURSIVE Replace(_, _, _)
\* str.replace(old, new) with a non-empty old
Replace(s, old, new) ==
  IF Len(s) = 0 THEN ""
  ELSE IF MatchAt(old, s, 1)
       THEN new \o Replace(SubSeq(s, Len(old) + 1, Len(s)), old, new)
       ELSE CharAt(s, 1) \o Replace(SubSeq(s, 2, Len(s)), old, new)

Digits == "0123456789"

\* the digit character of d in 0..9
DigitChar(d) == CharAt(Digits, d + 1)

\* the value of a digit character
DigitValue(c) == (CHOOSE i \in 1..Len(Digits) : CharAt(Digits, i) = c) - 1

RECURSIVE NatToStr(_)
\* the decimal digits of a natural number
NatToStr(n) ==
  IF n < 10 THEN DigitChar(n) ELSE NatToStr(n \div 10) \o DigitChar(n % 10)

RECURSIVE StrToNat(_)
\* the natural number a string of digits denotes
StrToNat(s) ==
  IF Len(s) = 0 THEN 0
  ELSE StrToNat(SubSeq(s, 1, Len(s) - 1)) * 10 + DigitValue(CharAt(s, Len(s)))

(***************************************************************************)
(* The inputs: the callers' queries and k, the stored chunks and the       *)
(* scores the vector store gives them                                      *)
(***************************************************************************)
\* the largest k a caller passes
MaxK == 2
\* the most pairs the vector store returns for one query
MaxResults == 2
\* the hash seeds of the process, 0..MaxSeed
MaxSeed == 1

Queries ==
  { "", "What is machine learning?", "Show work examples", "who is jane doe" }

KValues == (0 - 1)..MaxK

MLText == "Machine learning is a subset of AI that enables systems to learn from data."
UiSentence == "She designed the user interface for a mobile banking app in 2020"

\* the stored chunks
MLPadDoc == [page_content |-> "  " \o MLText \o "\n", metadata |-> [source |-> "ai.txt"]]
MLDoc    == [page_content |-> MLText, metadata |-> [source |-> "ai.pdf"]]
ShortDoc == [page_content |-> "Deep learning uses neural networks.",
             metadata     |-> [source |-> "ai.txt"]]
UiDoc    == [page_content |-> UiSentence \o ". Then it rained",
             metadata     |-> [source |-> "cv.pdf"]]
Ui2Doc   == [page_content |-> "The weather was fine. " \o UiSentence,
             metadata     |-> [source |-> "cv2.pdf"]]
LedDoc   == [page_content |->
               "He led the data migration project across three teams over two years. Nice",
             metadata     |-> [source |-> "cv.pdf"]]
UxDoc    == [page_content |->
               "Our UX research improved the user experience of the checkout flow for shoppers.",
             metadata     |-> [source |-> "cv.pdf"]]
ActDoc   == [page_content |->
               "They developed and implemented a billing service used by forty teams worldwide.",
             metadata     |-> [source |-> "cv.pdf"]]
JaneDoc  == [page_content |->
               "Jane Doe is an engineer. She likes hiking. Jane Doe led the project.",
             metadata     |-> [source |-> "bio.txt"]]

\* the float x as a fixed-point number, x given in hundredths
Hundredths(n) == (One * n) \div 100

\* the (chunk, cosine distance) pairs the vector store can give for a query
Rows ==
  { [doc |-> MLPadDoc, score |-> 0],
    [doc |-> MLPadDoc, score |-> Hundredths(20)],
    [doc |-> MLDoc,    score |-> Hundredths(20)],
    [doc |-> MLDoc,    score |-> Hundredths(65)],
    [doc |-> ShortDoc, score |-> Hundredths(20)],
    [doc |-> ShortDoc, score |-> Hundredths(100)],
    [doc |-> UiDoc,    score |-> Hundredths(20)],
    [doc |-> UiDoc,    score |-> Hundredths(80)],
    [doc |-> Ui2Doc,   score |-> Hundredths(65)],
    [doc |-> Ui2Doc,   score |-> Hundredths(90)],
    [doc |-> UxDoc,    score |-> Hundredths(20)],
    [doc |-> ActDoc,   score |-> Hundredths(20)],
    [doc |-> LedDoc,   score |-> Hundredths(20)],
    [doc |-> LedDoc,   score |-> Hundredths(120)],
    [doc |-> JaneDoc,  score |-> Hundredths(20)],
    [doc |-> JaneDoc,  score |-> Hundredths(20) + 4] }

\* the lists similarity_search_with_score(query, k=n) can return: at most n
\* pairs, each stored chunk once, by ascending distance
ResultLists(n) ==
  LET m == IF n < 0 THEN 0 ELSE IF n < MaxResults THEN n ELSE MaxResults
  IN  { rs \in UNION { [1..j -> Rows] : j \in 0..m } :
          /\ \A i \in 1..(Len(rs) - 1) : rs[i].score <= rs[i + 1].score
          /\ \A i, j \in 1..Len(rs) : rs[i].doc = rs[j].doc => i = j }

\* the scenario of ten pairs above the threshold and k = 3
TopK == 3
TopN == 10

TopQueries == { "What is machine learning?", "Show work examples" }

TopKinds == { "long", "short", "dup", "boosted" }

TopLongText(i) ==
  "Chunk " \o NatToStr(i) \o " covers one two three four five six seven eight nine ten."

\* the chunk of the given kind at rank i: a long one, one of four words, one
\* with the words of the first chunk, one that an example query boosts
TopDoc(kind, i) ==
  [page_content |->
     CASE kind = "long"    -> TopLongText(i)
       [] kind = "short"   -> "Chunk " \o NatToStr(i) \o " is short."
       [] kind = "dup"     -> TopLongText(1) \o " "
       [] kind = "boosted" -> "Chunk " \o NatToStr(i)
                                \o ": we designed the interface for one two three four five six.",
   metadata |-> [source |-> "report.pdf:" \o NatToStr(i)]]

\* distances 0.13, 0.16, ... : every similarity is above the threshold
TopScore(i) == Hundredths(10 + 3 * i)

TopRow(kind, i) == [doc |-> TopDoc(kind, i), score |-> TopScore(i)]

TopRows == { TopRow(kind, i) : kind \in TopKinds, i \in 1..TopN }

\* the lists of TopN pairs: all long but at most two, or all of one kind
TopLists ==
  { [i \in 1..TopN |-> TopRow(IF i = a THEN ka ELSE IF i = b THEN kb ELSE "long", i)] :
      a \in 1..TopN, b \in 1..TopN, ka \in TopKinds, kb \in TopKinds }
    \cup { [i \in 1..TopN |-> TopRow(kind, i)] : kind \in TopKinds }

\* what the call of the vector store does: it raises, or it returns a list
Upstreams(n) ==
  { [raises |-> TRUE, results |-> <<>>] }
    \cup { [raises |-> FALSE, results |-> rs] : rs \in ResultLists(n) }

(***************************************************************************)
(* KnowledgeBase.search, src/knowledge_base.py                             *)
(***************************************************************************)
\* the similarity kept inside 0..100
SimilarityClamped(score) ==
  IF score > One THEN 0 ELSE IF score < 0 THEN 100 * One ELSE (One - score) * 100

\* (1 - score) * 100
Similarity(score) == (One - score) * 100

\* "example" in query_lower or "work" in query_lower
IsExampleQuery(q) == Contains("example", Lower(q)) \/ Contains("work", Lower(q))

relevant_terms ==
  << "developed", "created", "designed", "built", "implemented",
     "led", "project", "worked on", "delivered", "launched",
     "ux", "user experience", "interface", "user interface",
     "research", "usability", "prototype", "wireframe" >>

ux_terms == << "ux", "user experience", "interface" >>
action_terms == << "developed", "created", "designed", "implemented" >>

\* any(term in text.lower() for term in terms)
AnyTermIn(terms, text) ==
  \E n \in 1..Len(terms) : Contains(terms[n], Lower(text))

\* the sentences of the content that hold a relevant term
RelevantSentences(content) ==
  LET IsRelevant(sent) == AnyTermIn(relevant_terms, sent)
  IN  SelectSeq(Split(content, ". "), IsRelevant)

\* the second boost as an elif of the first
ProcessedOneBoost(q, doc, score) ==
  LET content  == Strip(doc.page_content)
      base     == Similarity(score)
      relevant == RelevantSentences(content)
  IN  IF IsExampleQuery(q) /\ Len(relevant) > 0
      THEN LET filtered == Join(". ", relevant) \o "."
               boost    == IF AnyTermIn(ux_terms, filtered) THEN UxBoost * One
                           ELSE IF AnyTermIn(action_terms, filtered)
                                THEN ActionBoost * One ELSE 0
           IN  [content |-> filtered, similarity |-> base + boost,
                metadata |-> doc.metadata]
      ELSE [content |-> content, similarity |-> base, metadata |-> doc.metadata]

\* the content replaced by the joined sentences when none is relevant, too
ProcessedAlwaysFiltered(q, doc, score) ==
  LET content  == Strip(doc.page_content)
      base     == Similarity(score)
      relevant == RelevantSentences(content)
  IN  IF IsExampleQuery(q)
      THEN LET filtered == Join(". ", relevant) \o "."
               ux       == IF AnyTermIn(ux_terms, filtered) THEN UxBoost * One ELSE 0
               act      == IF AnyTermIn(action_terms, filtered) THEN ActionBoost * One ELSE 0
           IN  [content |-> filtered, similarity |-> base + ux + act,
                metadata |-> doc.metadata]
      ELSE [content |-> content, similarity |-> base, metadata |-> doc.metadata]

\* the content and the similarity of one (doc, score) pair, lines 163-191
Processed(q, doc, score) ==
  LET content  == Strip(doc.page_content)
      base     == Similarity(score)
      relevant == RelevantSentences(content)
  IN  IF IsExampleQuery(q) /\ Len(relevant) > 0
      THEN LET filtered == Join(". ", relevant) \o "."
               ux       == IF AnyTermIn(ux_terms, filtered) THEN UxBoost * One ELSE 0
               act      == IF AnyTermIn(action_terms, filtered) THEN ActionBoost * One ELSE 0
           IN  [content |-> filtered, similarity |-> base + ux + act,
                metadata |-> doc.metadata]
      ELSE [content |-> content, similarity |-> base, metadata |-> doc.metadata]

\* Processed over the inputs of the model, evaluated once
ProcessedMemo ==
  [q \in Queries, row \in Rows \cup TopRows |-> Processed(q, row.doc, row.score)]

\* the threshold taken as a minimum
IsRelevantResultInclusive(r) == r.similarity >= Threshold * One

\* "if similarity > 35"
IsRelevantResult(r) == r.similarity > Threshold * One

RECURSIVE FormatResults(_, _)
\* the loop of lines 160-199 over the pairs the vector store returned
FormatResults(q, results) ==
  IF Len(results) = 0 THEN <<>>
  ELSE LET r == ProcessedMemo[q, results[1]]
       IN  (IF IsRelevantResult(r) THEN <<r>> ELSE <<>>)
             \o FormatResults(q, Tail(results))

\* the position list.sort(reverse=True) gives r among the sorted elements
\* before it: after every element whose key is not smaller (the sort is stable)
RECURSIVE InsertDesc(_, _)
InsertDesc(sorted, r) ==
  IF Len(sorted) = 0 THEN <<r>>
  ELSE IF sorted[1].similarity >= r.similarity
       THEN <<sorted[1]>> \o InsertDesc(Tail(sorted), r)
       ELSE <<r>> \o sorted

\* the list left as the loop built it
SortSkipped(rs) == rs

RECURSIVE InsertAsc(_, _)
InsertAsc(sorted, r) ==
  IF Len(sorted) = 0 THEN <<r>>
  ELSE IF sorted[1].similarity <= r.similarity
       THEN <<sorted[1]>> \o InsertAsc(Tail(sorted), r)
       ELSE <<r>> \o sorted

RECURSIVE SortAsc(_)
\* the sort without reverse=True
SortAsc(rs) ==
  IF Len(rs) = 0 THEN <<>>
  ELSE InsertAsc(SortAsc(SubSeq(rs, 1, Len(rs) - 1)), rs[Len(rs)])

RECURSIVE SortDesc(_)
\* formatted_results.sort(key=lambda x: float(x['similarity']), reverse=True)
SortDesc(rs) ==
  IF Len(rs) = 0 THEN <<>>
  ELSE InsertDesc(SortDesc(SubSeq(rs, 1, Len(rs) - 1)), rs[Len(rs)])

\* hash(content): equal strings have equal hashes under every seed; unequal
\* strings may collide.  Seed 0 stands for a process whose hash tells all the
\* strings in play apart, the other seeds for processes where some collide.
Hash(seed, s) ==
  IF seed = 0 THEN <<Len(s), s>> ELSE <<Len(s) % (seed + 1), "">>

RECURSIVE DedupUnseen(_, _, _)
\* the loop without the test of seen_content
DedupUnseen(seed, rs, seen) ==
  IF Len(rs) = 0 THEN <<>>
  ELSE IF WordCount(rs[1].content) > MinWords
       THEN <<rs[1]>> \o DedupUnseen(seed, Tail(rs), seen)
       ELSE DedupUnseen(seed, Tail(rs), seen)

RECURSIVE DedupAnyLength(_, _, _)
\* the loop without the test of the number of words
DedupAnyLength(seed, rs, seen) ==
  IF Len(rs) = 0 THEN <<>>
  ELSE LET content_hash == Hash(seed, rs[1].content)
       IN  IF content_hash \notin seen
           THEN <<rs[1]>> \o DedupAnyLength(seed, Tail(rs), seen \cup {content_hash})
           ELSE DedupAnyLength(seed, Tail(rs), seen)

RECURSIVE Dedup(_, _, _)
\* the loop of lines 205-211; seen is seen_content
Dedup(seed, rs, seen) ==
  IF Len(rs) = 0 THEN <<>>
  ELSE LET content_hash == Hash(seed, rs[1].content)
       IN  IF content_hash \notin seen /\ WordCount(rs[1].content) > MinWords
           THEN <<rs[1]>> \o Dedup(seed, Tail(rs), seen \cup {content_hash})
           ELSE Dedup(seed, Tail(rs), seen)

\* the whole list
SliceSkipped(seq, n) == seq

\* seq[:n] of Python, n of either sign
SliceTo(seq, n) ==
  IF n >= 0
  THEN SubSeq(seq, 1, IF n < Len(seq) THEN n ELSE Len(seq))
  ELSE SubSeq(seq, 1, IF Len(seq) + n > 0 THEN Len(seq) + n ELSE 0)

\* seen_content kept from the call before: it starts with the hashes of the
\* results that call returned
SearchResultsSeenKept(seed, q, kk, results) ==
  SliceTo(Dedup(seed, SortDesc(FormatResults(q, results)),
                { Hash(seed, ret[j].content) : j \in 1..Len(ret) }), kk)

\* lines 160-216: what search returns when nothing raises
SearchResults(seed, q, kk, results) ==
  SliceTo(Dedup(seed, SortDesc(FormatResults(q, results)), {}), kk)

\* search without its except clause
SearchCallUncaught(seed, q, kk, up) ==
  IF up.raises
  THEN [outcome |-> "raised", ret |-> <<>>]
  ELSE [outcome |-> "returned",
        ret |-> SliceTo(Dedup(seed, SortDesc(FormatResults(q, up.results)), {}), kk)]

\* the call search(q, kk) when the vector store does up: the try block of
\* lines 138-216 and, when the vector store raises, the except clause of
\* lines 218-220, which returns []
SearchCall(seed, q, kk, up) ==
  IF up.raises
  THEN [outcome |-> "returned", ret |-> <<>>]
  ELSE [outcome |-> "returned", ret |-> SearchResults(seed, q, kk, up.results)]

(***************************************************************************)
(* KnowledgeBase.search, src/ragstuff/knowledge_base.py                    *)
(***************************************************************************)
\* the number of tenths nearest to the positive similarity v, ties to even
Tenths(v) ==
  LET q == (v * 10) \div One
      r == (v * 10) % One
  IN  IF 2 * r > One THEN q + 1
      ELSE IF 2 * r = One THEN q + (q % 2)
      ELSE q

\* f"{similarity:.1f}%", for the positive similarities that pass the filter
FormatSimilarity(v) ==
  NatToStr(Tenths(v) \div 10) \o "." \o DigitChar(Tenths(v) % 10) \o "%"

RECURSIVE RStripChar(_, _)
\* s.rstrip(c)
RStripChar(s, c) ==
  IF Len(s) > 0 /\ CharAt(s, Len(s)) = c
  THEN RStripChar(SubSeq(s, 1, Len(s) - 1), c)
  ELSE s

\* float(x['similarity'].rstrip('%')), for the strings FormatSimilarity makes
ParseSimilarity(s) ==
  LET parts == Split(RStripChar(s, "%"), ".")
  IN  (StrToNat(parts[1]) * 10 + StrToNat(parts[2])) * (One \div 10)

\* query.lower().startswith("who is")
IsWhoIsQuery(q) == StartsWith(Lower(q), "who is")

\* query.lower().replace("who is ", "").strip()
WhoIsName(q) == Strip(Replace(Lower(q), "who is ", ""))

\* the sentences of the content that hold the name
NameSentences(q, content) ==
  LET HasName(sent) == Contains(WhoIsName(q), Lower(sent))
  IN  SelectSeq(Split(content, ". "), HasName)

\* the result appended for one (doc, score) pair, lines 156-173
RagProcessed(q, doc, score) ==
  LET content == Strip(doc.page_content)
      named   == NameSentences(q, content)
  IN  [content    |-> IF IsWhoIsQuery(q) /\ Len(named) > 0
                      THEN Join(". ", named) \o "."
                      ELSE content,
       similarity |-> FormatSimilarity(Similarity(score)),
       metadata   |-> doc.metadata]

\* RagProcessed over the inputs of the model, evaluated once
RagProcessedMemo ==
  [q \in Queries, row \in Rows |->
     IF Similarity(row.score) > 0 THEN RagProcessed(q, row.doc, row.score) ELSE <<>>]

RECURSIVE RagFormatResults(_, _)
\* the loop of lines 148-173
RagFormatResults(q, results) ==
  IF Len(results) = 0 THEN <<>>
  ELSE (IF Similarity(results[1].score) > RagThreshold * One
        THEN <<RagProcessedMemo[q, results[1]]>>
        ELSE <<>>)
         \o RagFormatResults(q, Tail(results))

RECURSIVE RagInsertDesc(_, _)
RagInsertDesc(sorted, r) ==
  IF Len(sorted) = 0 THEN <<r>>
  ELSE IF ParseSimilarity(sorted[1].similarity) >= ParseSimilarity(r.similarity)
       THEN <<sorted[1]>> \o RagInsertDesc(Tail(sorted), r)
       ELSE <<r>> \o sorted

RECURSIVE RagSortDesc(_)
\* formatted_results.sort(key=lambda x: float(x['similarity'].rstrip('%')), reverse=True)
RagSortDesc(rs) ==
  IF Len(rs) = 0 THEN <<>>
  ELSE RagInsertDesc(RagSortDesc(SubSeq(rs, 1, Len(rs) - 1)), rs[Len(rs)])

\* lines 147-179: what the variant returns when the vector store returned
RagSearchResults(q, kk, results) ==
  SliceTo(RagSortDesc(RagFormatResults(q, results)), kk)

\* the call search(q, kk) of the variant, which has no try block: what the
\* vector store raises reaches the caller
RagSearchCall(q, kk, up) ==
  IF up.raises
  THEN [outcome |-> "raised", ret |-> <<>>]
  ELSE [outcome |-> "returned", ret |-> RagSearchResults(q, kk, up.results)]

(***************************************************************************)
(* KnowledgeBase.add_document, src/knowledge_base.py, and the upload loop   *)
(* of src/app.py                                                           *)
(***************************************************************************)
\* the most files in the uploader
MaxFiles == 2

FileNames == { "a.txt", "b.pdf", "c.txt" }

\* the step of add_document that raises, if one does: loader.load(),
\* split_documents or vector_store.add_documents
AddFailures == { "none", "load", "split", "store" }

\* what can go wrong in one pass of the loop: writing the temporary file, or
\* a step of add_document
UploadFailures == { "write" } \cup AddFailures

Message(file, text) == [file |-> file, text |-> text]

\* add_document(file_path), lines 106-134: True when the chunks were stored;
\* what a step raises is caught, shown with st.error and answered with False
AddDocument(file, fail) ==
  IF fail = "none"
  THEN [returned |-> TRUE, stored |-> TRUE, messages |-> {}]
  ELSE [returned |-> FALSE, stored |-> FALSE,
        messages |-> { Message(file, "Error adding document") }]

\* the body of the loop for one file, lines 96-112: the value add_document
\* returns is not looked at, st.success follows the call
UploadOne(file, fail) ==
  IF fail = "write"
  THEN [stored |-> FALSE, messages |-> { Message(file, "Error processing") }]
  ELSE [stored   |-> AddDocument(file, fail).stored,
        messages |-> AddDocument(file, fail).messages
                       \cup { Message(file, "Successfully added") }]

\* the lists of files the uploader can hold: no file twice
FileLists ==
  { fs \in UNION { [1..n -> FileNames] : n \in 1..MaxFiles } :
      \A i, j \in 1..Len(fs) : fs[i] = fs[j] => i = j }

\* a run of the page with files in the uploader: "if uploaded_files:"
StartUpload ==
  /\ pc = "idle"
  /\ pos = 0
  /\ \E fs \in FileLists : uploaded' = fs
  /\ pos' = 1
  /\ added' = {}
  /\ shown' = {}
  /\ UNCHANGED <<store, svars>>

\* one pass of "for file in uploaded_files:".  In the except clause of the
\* loop, line 112 passes st.error a keyword, exc_info, that is not among its
\* parameters: the pass either goes on to the next file or ends the run there
UploadFile ==
  /\ pos >= 1
  /\ pos <= Len(uploaded)
  /\ \E fail \in UploadFailures :
       LET one == UploadOne(uploaded[pos], fail)
       IN  /\ store' = IF one.stored THEN store \cup { uploaded[pos] } ELSE store
           /\ added' = IF one.stored THEN added \cup { uploaded[pos] } ELSE added
           /\ shown' = shown \cup one.messages
           /\ pos' \in IF fail = "write" THEN { pos + 1, Len(uploaded) + 1 }
                                        ELSE { pos + 1 }
  /\ UNCHANGED <<uploaded, svars>>

\* the loop is over; the page waits for the next run
EndUpload ==
  /\ pos > Len(uploaded)
  /\ pos' = 0
  /\ UNCHANGED <<uploaded, store, added, shown, svars>>

(***************************************************************************)
(* The state machine: one process, one call of search at a time            *)
(***************************************************************************)
NoUpstream == [raises |-> FALSE, results |-> <<>>]

\* prev when the call is not the repetition of one
NoPrev == [outcome |-> "none", ret |-> <<>>]

Init ==
  /\ pc = "idle"
  /\ caller = "none"
  /\ impl = "none"
  /\ query = ""
  /\ k = 0
  /\ upstream = NoUpstream
  /\ hashSeed \in 0..MaxSeed
  /\ outcome = "none"
  /\ ret = <<>>
  /\ prev = NoPrev
  /\ uploaded = <<>>
  /\ pos = 0
  /\ store = {}
  /\ added = {}
  /\ shown = {}

\* one call kb.search(q, k=kk) of src/knowledge_base.py, the vector store
\* doing up
CallSearch(who, q, kk, up) ==
  /\ caller' = who
  /\ impl' = "main"
  /\ query' = q
  /\ k' = kk
  /\ upstream' = up
  /\ outcome' = SearchCall(hashSeed, q, kk, up).outcome
  /\ ret' = SearchCall(hashSeed, q, kk, up).ret
  /\ prev' = NoPrev
  /\ pc' = "done"
  /\ UNCHANGED <<hashSeed, uvars>>

\* kb.search called as test_kb.py calls it: with whatever query and k the
\* calling code passes
Search ==
  /\ pc = "idle"
  /\ \E q \in Queries, kk \in KValues :
       \E up \in Upstreams(kk * OverFetch) : CallSearch("script", q, kk, up)

\* the search section of src/app.py: "if query:" and a number_input with
\* min_value=1 stand before kb.search(query, k=k, debug=debug_search)
AppSearch ==
  /\ pc = "idle"
  /\ \E q \in Queries \ {""}, kk \in 1..MaxK :
       \E up \in Upstreams(kk * OverFetch) : CallSearch("app", q, kk, up)

\* kb.search(query, k) of src/ragstuff/knowledge_base.py
RagSearch ==
  /\ pc = "idle"
  /\ \E q \in Queries, kk \in KValues :
       \E up \in Upstreams(kk * RagOverFetch) :
         /\ query' = q
         /\ k' = kk
         /\ upstream' = up
         /\ outcome' = RagSearchCall(q, kk, up).outcome
         /\ ret' = RagSearchCall(q, kk, up).ret
  /\ caller' = "script"
  /\ impl' = "ragstuff"
  /\ prev' = NoPrev
  /\ pc' = "done"
  /\ UNCHANGED <<hashSeed, uvars>>

\* the caller calls kb.search of src/knowledge_base.py once more with the same
\* query and k, and the vector store returns the same pairs; prev keeps what
\* the first call gave
SearchAgain ==
  /\ pc = "done"
  /\ impl = "main"
  /\ prev = NoPrev
  /\ prev' = [outcome |-> outcome, ret |-> ret]
  /\ outcome' = SearchCall(hashSeed, query, k, upstream).outcome
  /\ ret' = SearchCall(hashSeed, query, k, upstream).ret
  /\ UNCHANGED <<pc, caller, impl, query, k, upstream, hashSeed, uvars>>

\* kb.search(query, k=TopK) when the vector store returns TopN pairs
TopKSearch ==
  /\ pc = "idle"
  /\ \E q \in TopQueries, rs \in TopLists :
       CallSearch("script", q, TopK, [raises |-> FALSE, results |-> rs])

\* the caller has the result; the next call starts from scratch
Finish ==
  /\ pc = "done"
  /\ pc' = "idle"
  /\ caller' = "none"
  /\ impl' = "none"
  /\ query' = ""
  /\ k' = 0
  /\ upstream' = NoUpstream
  /\ outcome' = "none"
  /\ ret' = <<>>
  /\ prev' = NoPrev
  /\ UNCHANGED <<hashSeed, uvars>>

Next == Search \/ AppSearch \/ RagSearch \/ SearchAgain \/ Finish

Spec == Init /\ [][Next]_vars

\* the upload section alone
NextUpload == StartUpload \/ UploadFile \/ EndUpload

SpecUpload == Init /\ [][NextUpload]_vars

\* the calls of the scenario alone
NextTopK == TopKSearch \/ Finish

SpecTopK == Init /\ [][NextTopK]_vars

(***************************************************************************)
(* The claims                                                              *)
(***************************************************************************)
Done == pc = "done"
MainDone == pc = "done" /\ impl = "main"

\* the queries that hold "example" or "work"
ExampleQueries == { q \in Queries : IsExampleQuery(q) }

\* the content and similarity search gives the i-th pair of the vector store
Cand(i) == ProcessedMemo[query, upstream.results[i]]
NCand == Len(upstream.results)

\* C1: for a positive k, whatever the vector store returned, search returns
\* at most k results (both variants).
C1_AtMostK ==
  (Done /\ outcome = "returned" /\ k > 0) => Len(ret) <= k

\* two pairs survive the filters and k = 1 cuts the list to one
C1_Witness ==
  /\ MainDone /\ k = 1 /\ NCand = 2
  /\ Len(Dedup(hashSeed, SortDesc(FormatResults(query, upstream.results)), {})) = 2
  /\ Len(ret) = 1

\* C2: the returned list is in descending order of similarity, boosts included.
C2_SortedDesc ==
  MainDone => \A i \in 1..(Len(ret) - 1) : ret[i].similarity >= ret[i + 1].similarity

\* a boost puts the pair with the larger distance first
C2_Witness ==
  /\ MainDone /\ NCand = 2 /\ Len(ret) = 2
  /\ upstream.results[1].score < upstream.results[2].score
  /\ ret[1] = Cand(2) /\ ret[2] = Cand(1)
  /\ ret[1].similarity > ret[2].similarity

\* C3: no two returned results have the same final content.
C3_UniqueContent ==
  MainDone =>
    \A i, j \in 1..Len(ret) : ret[i].content = ret[j].content => i = j

\* two different chunks reduce to one filtered content, the second is dropped
C3_Witness ==
  /\ MainDone /\ NCand = 2 /\ k = 2
  /\ Strip(upstream.results[1].doc.page_content)
       # Strip(upstream.results[2].doc.page_content)
  /\ Cand(1).content = Cand(2).content
  /\ Cand(1).content # Strip(upstream.results[1].doc.page_content)
  /\ IsRelevantResult(Cand(1)) /\ IsRelevantResult(Cand(2))
  /\ Len(ret) = 1

\* C4: when the vector store raises or returns nothing, search returns the
\* empty list and raises nothing.
C4_UpstreamFailureEmpty ==
  (MainDone /\ (upstream.raises \/ upstream.results = <<>>)) =>
    (outcome = "returned" /\ ret = <<>>)

C4_Witness == MainDone /\ upstream.raises /\ k > 0 /\ outcome = "returned"

\* C5: with the empty query, search returns the empty list, whatever the
\* vector store returned.
C5_EmptyQueryEmpty ==
  (MainDone /\ query = "") => (outcome = "returned" /\ ret = <<>>)

\* C6: with k <= 0, search raises instead of returning a list.
C6_NonPositiveKRaises ==
  (MainDone /\ k <= 0) => outcome = "raised"

\* C8: of the pairs with one final content only the one of highest similarity
\* can be returned, and it is returned when nothing else removes it (the
\* content has more than 10 words, its hash collides with no other's, it is
\* above the threshold and the list is not cut at k).
C8_HighestDuplicateKept ==
  MainDone =>
    /\ \A j \in 1..Len(ret) : \A i \in 1..NCand :
         Cand(i).content = ret[j].content => ret[j].similarity >= Cand(i).similarity
    /\ \A i \in 1..NCand :
         ( /\ IsRelevantResult(Cand(i))
           /\ WordCount(Cand(i).content) > MinWords
           /\ hashSeed = 0
           /\ Len(ret) < k )
         => \E j \in 1..Len(ret) : ret[j].content = Cand(i).content

\* two pairs of one content and different distances, one returned
C8_Witness ==
  /\ MainDone /\ NCand = 2
  /\ Cand(1).content = Cand(2).content
  /\ upstream.results[1].score < upstream.results[2].score
  /\ IsRelevantResult(Cand(2))
  /\ Len(ret) = 1 /\ ret[1] = Cand(1)
  /\ ret[1].similarity > Cand(2).similarity

\* C10: distance 0.0 gives similarity exactly 100.0, distance 1.0 exactly 0.0,
\* and a distance above 1.0 a negative similarity: nothing is clamped.
C10_SimilarityEndpoints ==
  (MainDone /\ query \notin ExampleQueries) =>
    \A i \in 1..NCand :
      /\ upstream.results[i].score = 0 =>
           /\ Cand(i).similarity = 100 * One
           /\ \A j \in 1..Len(ret) :
                ret[j].content = Cand(i).content => ret[j].similarity = 100 * One
      /\ upstream.results[i].score = One => Cand(i).similarity = 0
      /\ upstream.results[i].score > One => Cand(i).similarity < 0

C10_Witness ==
  /\ MainDone /\ query \notin ExampleQueries /\ NCand = 2
  /\ upstream.results[1].score = 0 /\ upstream.results[2].score = One
  /\ Len(ret) = 1 /\ ret[1].similarity = 100 * One

\* the scenario: k = 3 and ten pairs, all above the threshold
TopDone ==
  /\ MainDone /\ k = TopK /\ NCand = TopN
  /\ \A i \in 1..NCand : IsRelevantResult(Cand(i))

\* the returned results are pairs of the vector store, and no pair left out
\* has a higher similarity than a returned one
ReturnsHighest ==
  /\ \A j \in 1..Len(ret) : \E i \in 1..NCand : ret[j] = Cand(i)
  /\ \A i \in 1..NCand :
       (\A j \in 1..Len(ret) : ret[j] # Cand(i)) =>
         \A j \in 1..Len(ret) : ret[j].similarity >= Cand(i).similarity

\* every pair has more than 10 words and a content hash of its own
AllLongAndDistinct ==
  /\ \A i \in 1..NCand : WordCount(Cand(i).content) > MinWords
  /\ \A i, j \in 1..NCand :
       Hash(hashSeed, Cand(i).content) = Hash(hashSeed, Cand(j).content) => i = j

\* C7, as stated: with k = 3 and 10 pairs above the threshold, exactly 3
\* results are returned, the 3 of highest similarity (taken in a process
\* whose hash tells all the contents apart).
C7_TopKOfTen ==
  (TopDone /\ hashSeed = 0) => (Len(ret) = TopK /\ ReturnsHighest)

\* C7, amended: the same, when every pair's final content has more than 10
\* words and no two pairs share a content hash.
C7_TopKOfTenLongDistinct ==
  (TopDone /\ AllLongAndDistinct) => (Len(ret) = TopK /\ ReturnsHighest)

\* a boost brings a pair from beyond rank 3 into the three returned
C7_Witness ==
  /\ TopDone /\ AllLongAndDistinct /\ TopK = 3 /\ TopN = 10
  /\ Len(ret) = TopK
  /\ \E j \in 1..Len(ret) : \E i \in (TopK + 1)..NCand : ret[j] = Cand(i)

\* C9: for "who is jane doe" and the one chunk at distance 0.2, one result of
\* similarity 80.0 whose content is the two sentences with "jane doe", joined
\* with ". " and ended by one period.
C9_JaneDoeScenario ==
  ( /\ Done /\ impl = "ragstuff" /\ outcome = "returned"
    /\ query = "who is jane doe" /\ k >= 1
    /\ upstream.results = <<[doc |-> JaneDoc, score |-> Hundredths(20)]>> )
  => /\ Len(ret) = 1
     /\ ParseSimilarity(ret[1].similarity) = 80 * One
     /\ ret[1].content = "Jane Doe is an engineer. Jane Doe led the project."

C12_AboveThreshold ==
  MainDone =>
    /\ \A j \in 1..Len(ret) : ret[j].similarity > 35 * One
    /\ \A i \in 1..NCand :
         Cand(i).similarity <= 35 * One => \A j \in 1..Len(ret) : ret[j] # Cand(i)

\* a long chunk at exactly 35.0 without a boost, or at 10.0 with both boosts,
\* is left out of a list that k does not cut
C12_Witness ==
  /\ MainDone /\ NCand = 2 /\ k = 2
  /\ Cand(1).similarity > 35 * One
  /\ Cand(2).similarity = 35 * One
  /\ Cand(2).similarity > Similarity(upstream.results[2].score)
  /\ WordCount(Cand(2).content) > MinWords
  /\ Len(ret) = 1 /\ ret[1] = Cand(1)

\* C13: every returned result has more than 10 words; a pair of 10 words or
\* fewer is dropped though it is above the threshold and has no duplicate.
C13_MoreThanTenWords ==
  MainDone => \A j \in 1..Len(ret) : WordCount(ret[j].content) > 10

\* the only pair has five words and similarity 80.0: nothing is returned
C13_Witness ==
  /\ MainDone /\ NCand = 1 /\ k >= 1
  /\ IsRelevantResult(Cand(1))
  /\ WordCount(Cand(1).content) <= 10
  /\ ret = <<>>

\* the stripped text of each stored chunk, and the chunks none of whose
\* sentences holds one of the relevant terms
Stripped == [row \in Rows |-> Strip(row.doc.page_content)]

NoTermRows ==
  { row \in Rows :
      \A n \in 1..Len(relevant_terms) :
        ~Contains(relevant_terms[n], Lower(Stripped[row])) }

\* C14: for a query with "example" or "work", a pair none of whose sentences
\* holds a relevant term keeps its whole stripped text and gets no boost; and
\* no pair with text gets an empty content.
C14_UnmatchedKeptWhole ==
  (MainDone /\ query \in ExampleQueries) =>
    \A i \in 1..NCand :
      /\ upstream.results[i] \in NoTermRows =>
           /\ Cand(i).content = Stripped[upstream.results[i]]
           /\ Cand(i).similarity = Similarity(upstream.results[i].score)
      /\ Stripped[upstream.results[i]] # "" => Cand(i).content # ""

\* an unmatched chunk is returned whole, stripped of its blanks
C14_Witness ==
  /\ MainDone /\ query \in ExampleQueries /\ NCand >= 1
  /\ upstream.results[1] \in NoTermRows
  /\ upstream.results[1].doc.page_content # Stripped[upstream.results[1]]
  /\ Len(ret) >= 1
  /\ ret[1].content = Stripped[upstream.results[1]]
  /\ ret[1].similarity = Similarity(upstream.results[1].score)

\* the final contents of the stored chunks that hold a term of each cluster
FinalContents == { ProcessedMemo[q, row].content : q \in Queries, row \in Rows }
UxContents == { c \in FinalContents : AnyTermIn(ux_terms, c) }
ActionContents == { c \in FinalContents : AnyTermIn(action_terms, c) }

\* C15: when sentences were kept, the similarity is the base similarity plus
\* 15 if the filtered content holds a term of the first cluster, plus 10 if it
\* holds one of the second, 25 with both; each bonus is added once.
C15_AdditiveBoosts ==
  (MainDone /\ query \in ExampleQueries) =>
    \A i \in 1..NCand :
      upstream.results[i] \notin NoTermRows =>
        Cand(i).similarity - Similarity(upstream.results[i].score) =
          CASE Cand(i).content \in UxContents /\ Cand(i).content \in ActionContents
                 -> 25 * One
            [] Cand(i).content \in UxContents /\ Cand(i).content \notin ActionContents
                 -> 15 * One
            [] Cand(i).content \notin UxContents /\ Cand(i).content \in ActionContents
                 -> 10 * One
            [] OTHER -> 0

\* a pair with both boosts and one with the first boost alone, which holds two
\* terms of its cluster, are returned
C15_Witness ==
  /\ MainDone /\ query \in ExampleQueries /\ NCand = 2 /\ Len(ret) = 2
  /\ \E i, j \in 1..2 :
       /\ ret[i].similarity = Similarity(Hundredths(20)) + 25 * One
       /\ ret[j].similarity = Similarity(Hundredths(20)) + 15 * One
       /\ Contains("ux", Lower(ret[j].content))
       /\ Contains("user experience", Lower(ret[j].content))

\* C16: "Successfully added: <file>" is shown for a file only if add_document
\* stored the file's chunks in this pass of the loop.
C16_SuccessOnlyIfStored ==
  \A f \in FileNames :
    Message(f, "Successfully added") \in shown => f \in added

====
